---- MODULE Spec2Model ----
(***************************************************************************)
(* A model of build.rs, the build script of ct2rs (Rust bindings for       *)
(* CTranslate2).  One run of main() is one behaviour: the build            *)
(* environment (target platform, enabled cargo features, environment       *)
(* variables, the files that exist, the order in which WalkDir yields the  *)
(* build tree) is chosen in Init and never changes; the script's own state *)
(* is the program counter, the lines printed to cargo on stdout, the       *)
(* cmake::Config being assembled, the locals of main and link_libraries    *)
(* and the cxx_build invocation.                                           *)
(*                                                                         *)
(* Strings the script takes apart (path lists, file names) are sequences   *)
(* of one-character strings; strings it only passes on are TLA+ strings.   *)
(* A filesystem path is the sequence of the components joined so far.      *)
(* Option<T> is a sequence of length 0 (None) or 1 (Some).                 *)
(***************************************************************************)
EXTENDS Integers, Sequences, FiniteSets, TLC

VARIABLES
    platform,     \* [os, arch]: cfg!(target_os), cfg!(target_arch)
    features,     \* the set of enabled cargo features, cfg!(feature = ..)
    env,          \* environment variable name -> Option<String>  (env::var(..).ok())
    files,        \* the paths that are regular files (Path::is_file)
    walk,         \* what WalkDir::new(root).into_iter() yields, in order
    pc,           \* where main() is
    out,          \* the println! lines so far, each with the source line that printed it
    cmake,        \* the cmake::Config
    cuda,         \* main's local `cuda`, the result of cuda_root()
    calls,        \* the functions with effects outside the script called so far
    idx,          \* link_libraries: number of walk entries consumed
    current_dir,  \* link_libraries: Option<PathBuf>, the directory registered last
    cxx           \* the cxx_build invocation, once made

vars == <<platform, features, env, files, walk, pc, out, cmake, cuda, calls,
          idx, current_dir, cxx>>

inputs == <<platform, features, env, files, walk>>

-----------------------------------------------------------------------------
(* Option<T> *)

None == <<>>

Some(v) == <<v>>

IsSome(o) == o # <<>>

Unwrap(o) == o[1]

-----------------------------------------------------------------------------
(* Small helpers on sequences *)

RECURSIVE Flatten(_)
Flatten(ss) == IF ss = <<>> THEN <<>> ELSE Head(ss) \o Flatten(Tail(ss))

starts_with(name, prefix) ==
    /\ Len(name) >= Len(prefix)
    /\ SubSeq(name, 1, Len(prefix)) = prefix

ends_with(name, suffix) ==
    /\ Len(name) >= Len(suffix)
    /\ SubSeq(name, Len(name) - Len(suffix) + 1, Len(name)) = suffix

\* &name[a..b] with 0-based byte offsets, as Rust slices
Slice(name, a, b) == SubSeq(name, a + 1, b)

-----------------------------------------------------------------------------
(* Lines printed for cargo.  `at` is the source line of the println!.      *)

Line(at, directive, arg) == [at |-> at, directive |-> directive, arg |-> arg]

-----------------------------------------------------------------------------
(* add_search_paths *)

PATH_SEPARATOR(os) == IF os = "windows" THEN ";" ELSE ":"

\* str::split(char): the pieces between separators, empty pieces included
RECURSIVE split(_, _, _)
split(s, sep, piece) ==
    IF s = <<>> THEN <<piece>>
    ELSE IF Head(s) = sep THEN <<piece>> \o split(Tail(s), sep, <<>>)
    ELSE split(Tail(s), sep, Append(piece, Head(s)))

\* add_search_paths without the filter on empty pieces
add_search_paths_unfiltered(os, e, key) ==
    <<Line(22, "cargo:rerun-if-env-changed", key)>> \o
    IF IsSome(e[key])
    THEN LET pieces == split(Unwrap(e[key]), PATH_SEPARATOR(os), <<>>)
         IN  [i \in DOMAIN pieces |-> Line(28, "cargo:rustc-link-search", pieces[i])]
    ELSE <<>>

\* the lines add_search_paths(key) prints
add_search_paths(os, e, key) ==
    <<Line(22, "cargo:rerun-if-env-changed", key)>> \o
    IF IsSome(e[key])
    THEN LET pieces == split(Unwrap(e[key]), PATH_SEPARATOR(os), <<>>)
             kept   == SelectSeq(pieces, LAMBDA v : v # <<>>)
         IN  [i \in DOMAIN kept |-> Line(28, "cargo:rustc-link-search", kept[i])]
    ELSE <<>>

-----------------------------------------------------------------------------
(* is_library, library_name *)

is_library(os, name) ==
    IF os = "windows"
    THEN ends_with(name, <<".", "l", "i", "b">>)
    ELSE starts_with(name, <<"l", "i", "b">>) /\ ends_with(name, <<".", "a">>)

\* library_name leaving the lib prefix in place
library_name_with_prefix(os, name) ==
    IF os = "windows"
    THEN Slice(name, 0, Len(name) - 4)
    ELSE Slice(name, 0, Len(name) - 2)

library_name(os, name) ==
    IF os = "windows"
    THEN Slice(name, 0, Len(name) - 4)
    ELSE Slice(name, 3, Len(name) - 2)

-----------------------------------------------------------------------------
(* cuda_root *)

join(path, component) == Append(path, component)

is_file(fs, path) == path \in fs

CudaEnvVars == <<"CUDA_PATH", "CUDA_ROOT", "CUDA_TOOLKIT_ROOT_DIR", "CUDNN_LIB">>

CudaRoots ==
    <<"/usr", "/usr/local/cuda", "/opt/cuda", "/usr/lib/cuda",
      "C:/Program Files/NVIDIA GPU Computing Toolkit", "C:/CUDA">>

\* Iterator::find: the first element that satisfies the test
RECURSIVE find(_, _)
find(candidates, fs) ==
    IF candidates = <<>> THEN None
    ELSE IF is_file(fs, join(join(Head(candidates), "include"), "cuda.h"))
         THEN Some(Head(candidates))
         ELSE find(Tail(candidates), fs)

\* the candidate paths, in the order the chained iterator yields them
CudaCandidates(e) ==
    LET values == Flatten([i \in DOMAIN CudaEnvVars |-> e[CudaEnvVars[i]]])
        chain  == values \o CudaRoots
    IN  [i \in DOMAIN chain |-> <<chain[i]>>]

Reverse(seq) == [i \in DOMAIN seq |-> seq[Len(seq) + 1 - i]]

\* cuda_root keeping the last candidate that passes instead of the first
cuda_root_last(e, fs) == find(Reverse(CudaCandidates(e)), fs)

\* cuda_root falling back to a default directory when no candidate passes
cuda_root_or_default(e, fs) ==
    IF IsSome(find(CudaCandidates(e), fs))
    THEN find(CudaCandidates(e), fs)
    ELSE Some(<<"/usr/local/cuda">>)

cuda_root(e, fs) == find(CudaCandidates(e), fs)

-----------------------------------------------------------------------------
(* The cmake::Config and what main() puts into it *)

\* a string handed over whole (an OsStr), as a one-component sequence
Text(s) == <<s>>

Define(key, value) == <<key, value>>

NewConfig == [defines |-> <<>>, profile |-> None, cxxflags |-> <<>>, static_crt |-> None]

BaselineDefines ==
    << Define("BUILD_CLI", Text("OFF")),
       Define("BUILD_SHARED_LIBS", Text("OFF")),
       Define("WITH_MKL", Text("OFF")),
       Define("OPENMP_RUNTIME", Text("NONE")),
       Define("CMAKE_POLICY_VERSION_MINIMUM", Text("3.5")) >>

\* String::contains on CARGO_ENCODED_RUSTFLAGS
CrtStaticFlags == {"-Ctarget-feature=+crt-static"}

rustflags_contain_crt_static(e) ==
    IsSome(e["CARGO_ENCODED_RUSTFLAGS"]) /\ Unwrap(e["CARGO_ENCODED_RUSTFLAGS"]) \in CrtStaticFlags

WindowsLines(os, e) ==
    IF os = "windows"
    THEN (IF ~rustflags_contain_crt_static(e)
          THEN <<Line(51, "cargo:warning", Text("set RUSTFLAGS=-C target-feature=+crt-static"))>>
          ELSE <<>>)
         \o <<Line(54, "cargo::rustc-link-arg", Text("/FORCE:MULTIPLE"))>>
    ELSE <<>>

WindowsToolchain(os, cfg) ==
    IF os = "windows"
    THEN [cfg EXCEPT !.profile = Some("Release"),
                     !.cxxflags = Append(@, "/EHsc"),
                     !.static_crt = Some(TRUE)]
    ELSE cfg

CudaDefines(feats, root) ==
    << Define("WITH_CUDA", Text("ON")), Define("CUDA_TOOLKIT_ROOT_DIR", root) >>
    \o (IF "cudnn" \in feats THEN <<Define("WITH_CUDNN", Text("ON"))>> ELSE <<>>)
    \o (IF "cuda-dynamic-loading" \in feats
        THEN <<Define("CUDA_DYNAMIC_LOADING", Text("ON"))>> ELSE <<>>)

\* CudaLines linking the static cuBLAS libraries whatever cuda-dynamic-loading is
CudaLines_always_static(os, feats, root) ==
    << Line(62, "cargo:rustc-link-search", join(root, "lib")),
       Line(63, "cargo:rustc-link-search", join(root, "lib64")),
       Line(64, "cargo:rustc-link-search", join(root, "lib/x64")),
       Line(65, "cargo:rustc-link-lib=static", Text("cudart_static")) >>
    \o (IF "cudnn" \in feats THEN <<Line(68, "cargo:rustc-link-lib", Text("cudnn"))>> ELSE <<>>)
    \o (IF os = "windows"
        THEN << Line(74, "cargo:rustc-link-lib=static", Text("cublas")),
                Line(75, "cargo:rustc-link-lib=static", Text("cublasLt")) >>
        ELSE << Line(77, "cargo:rustc-link-lib=static", Text("cublas_static")),
                Line(78, "cargo:rustc-link-lib=static", Text("cublasLt_static")),
                Line(79, "cargo:rustc-link-lib=static", Text("culibos")) >>)

CudaLines(os, feats, root) ==
    << Line(62, "cargo:rustc-link-search", join(root, "lib")),
       Line(63, "cargo:rustc-link-search", join(root, "lib64")),
       Line(64, "cargo:rustc-link-search", join(root, "lib/x64")),
       Line(65, "cargo:rustc-link-lib=static", Text("cudart_static")) >>
    \o (IF "cudnn" \in feats THEN <<Line(68, "cargo:rustc-link-lib", Text("cudnn"))>> ELSE <<>>)
    \o (IF "cuda-dynamic-loading" \in feats THEN <<>>
        ELSE IF os = "windows"
        THEN << Line(74, "cargo:rustc-link-lib=static", Text("cublas")),
                Line(75, "cargo:rustc-link-lib=static", Text("cublasLt")) >>
        ELSE << Line(77, "cargo:rustc-link-lib=static", Text("cublas_static")),
                Line(78, "cargo:rustc-link-lib=static", Text("cublasLt_static")),
                Line(79, "cargo:rustc-link-lib=static", Text("culibos")) >>)

MacDefines(p) ==
    IF p.os = "macos" /\ p.arch = "aarch64"
    THEN <<Define("CMAKE_OSX_ARCHITECTURES", Text("arm64"))>> ELSE <<>>

FeatureDefines(feats) ==
       (IF "mkl" \in feats THEN <<Define("WITH_MKL", Text("ON"))>> ELSE <<>>)
    \o (IF "openblas" \in feats THEN <<Define("WITH_OPENBLAS", Text("ON"))>> ELSE <<>>)
    \o (IF "ruy" \in feats THEN <<Define("WITH_RUY", Text("ON"))>> ELSE <<>>)
    \o (IF "accelerate" \in feats THEN <<Define("WITH_ACCELERATE", Text("ON"))>> ELSE <<>>)
    \o (IF "tensor-parallel" \in feats
        THEN <<Define("WITH_TENSOR_PARALLEL", Text("ON"))>> ELSE <<>>)
    \o (IF "dnnl" \in feats THEN <<Define("WITH_DNNL", Text("ON"))>> ELSE <<>>)
    \o (IF "openmp-runtime" \in feats
        THEN <<Define("OPENMP_RUNTIME", Text("COMP"))>> ELSE <<>>)
    \o (IF "flash-attention" \in feats
        THEN <<Define("WITH_FLASH_ATTN", Text("ON"))>> ELSE <<>>)

FeatureLines(feats) ==
       (IF "openblas" \in feats
        THEN <<Line(91, "cargo:rustc-link-lib=static", Text("openblas"))>> ELSE <<>>)
    \o (IF "accelerate" \in feats
        THEN <<Line(98, "cargo:rustc-link-lib=framework", Text("Accelerate"))>> ELSE <<>>)

-----------------------------------------------------------------------------
(* The bridge compilation *)

\* cc::Build::flag_if_supported: whether the platform's C++ compiler takes the flag
\* (cl.exe, the compiler on the Windows targets, takes /EHsc; gcc and clang do not)
compiler_accepts(os, flag) == flag = "/EHsc" /\ os = "windows"

\* BridgeBuild never asking for the static C runtime
BridgeBuild_dynamic_crt(os) ==
    [ bridges |-> << "src/sys/types.rs", "src/sys/config.rs", "src/sys/scoring.rs",
                    "src/sys/translator.rs", "src/sys/generator.rs",
                    "src/sys/storage_view.rs", "src/sys/whisper.rs" >>,
      files |-> <<"src/sys/translator.cpp", "src/sys/generator.cpp", "src/sys/whisper.cpp">>,
      include |-> "CTranslate2/include",
      std |-> "c++17",
      static_crt |-> FALSE,
      flags |-> IF compiler_accepts(os, "/EHsc") THEN <<"/EHsc">> ELSE <<>>,
      output |-> "ct2rs" ]

BridgeBuild(os) ==
    [ bridges |-> << "src/sys/types.rs", "src/sys/config.rs", "src/sys/scoring.rs",
                    "src/sys/translator.rs", "src/sys/generator.rs",
                    "src/sys/storage_view.rs", "src/sys/whisper.rs" >>,
      files |-> <<"src/sys/translator.cpp", "src/sys/generator.cpp", "src/sys/whisper.cpp">>,
      include |-> "CTranslate2/include",
      std |-> "c++17",
      static_crt |-> (os = "windows"),
      flags |-> IF compiler_accepts(os, "/EHsc") THEN <<"/EHsc">> ELSE <<>>,
      output |-> "ct2rs" ]

-----------------------------------------------------------------------------
(* The build environments explored.  Each family varies one part of the    *)
(* environment over all its bounded values and keeps the rest small.       *)

MaxPathList == 3     \* characters in a path-list variable's value
MaxMarked == 2       \* toolkit roots that hold include/cuda.h
MaxWalk == 3         \* entries the walk yields
MaxStem == 2         \* characters between a file name's prefix and suffix

BoundedSeq(S, n) == UNION {[1..k -> S] : k \in 0..n}

Features ==
    {"cuda", "cudnn", "cuda-dynamic-loading", "mkl", "openblas", "ruy", "accelerate",
     "tensor-parallel", "dnnl", "openmp-runtime", "flash-attention"}

Platforms == [os : {"windows", "linux", "macos"}, arch : {"x86_64", "aarch64"}]

Linux == [os |-> "linux", arch |-> "x86_64"]

Windows == [os |-> "windows", arch |-> "x86_64"]

EnvKeys ==
    {"LIBRARY_PATH", "CMAKE_LIBRARY_PATH", "CARGO_ENCODED_RUSTFLAGS",
     "CUDA_PATH", "CUDA_ROOT", "CUDA_TOOLKIT_ROOT_DIR", "CUDNN_LIB"}

EmptyEnv == [k \in EnvKeys |-> None]

Marker(root) == <<root, "include", "cuda.h">>

\* the build tree: its root and one directory below it
BuildDir == <<"out", "build">>

SubDir == <<"out", "build", "third_party">>

File(parent, name) == [kind |-> "file", parent |-> parent, name |-> Some(name)]

Directory(path) == [kind |-> "dir", parent |-> path, name |-> None]

Unreadable == [kind |-> "err", parent |-> <<>>, name |-> None]

NonUnicodeFile(parent) == [kind |-> "file", parent |-> parent, name |-> None]

LibFile(os, parent, stem) ==
    File(parent, IF os = "windows" THEN stem \o <<".", "l", "i", "b">>
                 ELSE <<"l", "i", "b">> \o stem \o <<".", "a">>)

Foo == <<"f", "o", "o">>

Bar == <<"b", "a", "r">>

Baz == <<"b", "a", "z">>

DefaultWalk(os) == <<LibFile(os, BuildDir, <<"c", "t", "2">>)>>

Input(p, f, e, fs, w) == [platform |-> p, features |-> f, env |-> e, files |-> fs, walk |-> w]

MacArm == [os |-> "macos", arch |-> "aarch64"]

MacIntel == [os |-> "macos", arch |-> "x86_64"]

\* every feature set on each operating system, without a toolkit and, where the feature
\* set asks for one, with one
FeatureInputs ==
    { Input(p, f, EmptyEnv, {}, DefaultWalk(p.os)) :
        p \in {Linux, Windows, MacArm, MacIntel}, f \in SUBSET Features }
    \cup
    { Input(p, f \cup {"cuda"}, EmptyEnv, {Marker("/usr/local/cuda")}, DefaultWalk(p.os)) :
        p \in {Linux, Windows, MacArm, MacIntel}, f \in SUBSET Features }

\* the toolkit variables set or not, and the marker under a few of the candidates
ToolkitPaths == {"/opt/cuda-12", "/usr/local/cuda"}

ToolkitInputs ==
    { Input(Linux, f, [k \in EnvKeys |-> IF k \in DOMAIN ev THEN ev[k] ELSE None],
            {Marker(r) : r \in m}, DefaultWalk("linux")) :
        f \in {{"cuda"}, {"cudnn", "cuda-dynamic-loading"}},
        ev \in [{CudaEnvVars[i] : i \in DOMAIN CudaEnvVars}
                  -> {None} \cup {Some(v) : v \in ToolkitPaths}],
        m \in {x \in SUBSET (ToolkitPaths \cup {"/usr", "/opt/cuda", "C:/CUDA"}) :
                 Cardinality(x) <= MaxMarked} }

\* the two path-list variables
PathListValues(n) == {None} \cup {Some(v) : v \in BoundedSeq({"a", ":", ";"}, n)}

PathListInputs ==
    { Input(p, {}, [EmptyEnv EXCEPT !["LIBRARY_PATH"] = a, !["CMAKE_LIBRARY_PATH"] = b],
            {}, DefaultWalk(p.os)) :
        p \in {Linux, Windows},
        a \in PathListValues(MaxPathList), b \in PathListValues(MaxPathList - 2) }

\* CARGO_ENCODED_RUSTFLAGS
RustflagsInputs ==
    { Input(p, {}, [EmptyEnv EXCEPT !["CARGO_ENCODED_RUSTFLAGS"] = v], {}, DefaultWalk(p.os)) :
        p \in Platforms,
        v \in {Some("-Ctarget-feature=+crt-static"), Some("-Copt-level=3")} }

\* the order of the walk: libraries of two directories, other entries in between
OrderEntries(os) ==
    {LibFile(os, BuildDir, Foo), LibFile(os, BuildDir, Bar),
     LibFile(os, SubDir, Baz), LibFile(os, SubDir, Bar),
     Directory(SubDir), Unreadable}

WalkInputs ==
    { Input(p, {}, EmptyEnv, {}, w) :
        p \in {Linux}, w \in BoundedSeq(OrderEntries("linux"), MaxWalk) }
    \cup
    { Input(p, {}, EmptyEnv, {}, w) :
        p \in {Windows}, w \in BoundedSeq(OrderEntries("windows"), MaxWalk) }

\* file names: with and without the prefix and the suffixes of either convention
FileNames ==
    { prefix \o stem \o suffix :
        prefix \in {<<>>, <<"l", "i", "b">>},
        stem \in BoundedSeq({"m", "."}, MaxStem) \cup {<<"m", "y", "l", "i", "b">>},
        suffix \in {<<>>, <<".", "a">>, <<".", "l", "i", "b">>, <<".", "s", "o">>} }

NameInputs ==
    { Input(p, {}, EmptyEnv, {}, <<e>>) :
        p \in {Linux, Windows},
        e \in {File(BuildDir, n) : n \in FileNames}
              \cup {[kind |-> "dir", parent |-> BuildDir, name |-> Some(n)] : n \in FileNames}
              \cup {NonUnicodeFile(BuildDir)} }

Inputs ==
    FeatureInputs \cup ToolkitInputs \cup PathListInputs \cup RustflagsInputs
    \cup WalkInputs \cup NameInputs

Init ==
    /\ \E i \in Inputs :
          /\ platform = i.platform
          /\ features = i.features
          /\ env = i.env
          /\ files = i.files
          /\ walk = i.walk
    /\ pc = "start"
    /\ out = <<>>
    /\ cmake = NewConfig
    /\ cuda = None
    /\ calls = <<>>
    /\ idx = 0
    /\ current_dir = None
    /\ cxx = None

-----------------------------------------------------------------------------
(* main() *)

\* lines 34-37
Start ==
    /\ pc = "start"
    /\ out' = out \o << Line(34, "cargo:rerun-if-changed", Text("build.rs")),
                         Line(35, "cargo:rerun-if-changed", Text("src/sys")),
                         Line(36, "cargo:rerun-if-changed", Text("include")),
                         Line(37, "cargo:rerun-if-changed", Text("CTranslate2")) >>
    /\ pc' = "search1"
    /\ UNCHANGED <<inputs, cmake, cuda, calls, idx, current_dir, cxx>>

\* line 38
SearchLibraryPath ==
    /\ pc = "search1"
    /\ out' = out \o add_search_paths(platform.os, env, "LIBRARY_PATH")
    /\ pc' = "search2"
    /\ UNCHANGED <<inputs, cmake, cuda, calls, idx, current_dir, cxx>>

\* line 39
SearchCmakeLibraryPath ==
    /\ pc = "search2"
    /\ out' = out \o add_search_paths(platform.os, env, "CMAKE_LIBRARY_PATH")
    /\ pc' = "config"
    /\ UNCHANGED <<inputs, cmake, cuda, calls, idx, current_dir, cxx>>

\* lines 41-56
Configure ==
    /\ pc = "config"
    /\ cmake' = WindowsToolchain(platform.os, [NewConfig EXCEPT !.defines = BaselineDefines])
    /\ out' = out \o WindowsLines(platform.os, env)
    /\ pc' = "cuda"
    /\ UNCHANGED <<inputs, cuda, calls, idx, current_dir, cxx>>

\* the toolkit asked for by any of the three CUDA features
needs_toolkit_any(feats) == feats \cap {"cuda", "cudnn", "cuda-dynamic-loading"} # {}

\* line 58
needs_toolkit(feats) == "cuda" \in feats

\* lines 58-82
ConfigureCuda ==
    /\ pc = "cuda"
    /\ \/ /\ ~needs_toolkit(features)
          /\ pc' = "features"
          /\ UNCHANGED <<cuda, calls, cmake, out>>
       \/ /\ needs_toolkit(features)
          /\ IsSome(cuda_root(env, files))
          /\ cuda' = cuda_root(env, files)
          /\ calls' = Append(calls, "cuda_root")
          /\ cmake' = [cmake EXCEPT !.defines = @ \o CudaDefines(features, Unwrap(cuda'))]
          /\ out' = out \o CudaLines(platform.os, features, Unwrap(cuda'))
          /\ pc' = "features"
       \/ /\ needs_toolkit(features)
          /\ ~IsSome(cuda_root(env, files))
          /\ calls' = Append(calls, "cuda_root")
          /\ pc' = "panicked"            \* expect("CUDA_TOOLKIT_ROOT_DIR is not specified")
          /\ UNCHANGED <<cuda, cmake, out>>
    /\ UNCHANGED <<inputs, idx, current_dir, cxx>>

\* ConfigureFeatures putting its definitions in front of the baseline
ConfigureFeatures_before_baseline ==
    /\ pc = "features"
    /\ cmake' = [cmake EXCEPT !.defines = MacDefines(platform) \o FeatureDefines(features) \o @]
    /\ out' = out \o FeatureLines(features)
    /\ pc' = "build"
    /\ UNCHANGED <<inputs, cuda, calls, idx, current_dir, cxx>>

\* lines 83-112
ConfigureFeatures ==
    /\ pc = "features"
    /\ cmake' = [cmake EXCEPT !.defines = @ \o MacDefines(platform) \o FeatureDefines(features)]
    /\ out' = out \o FeatureLines(features)
    /\ pc' = "build"
    /\ UNCHANGED <<inputs, cuda, calls, idx, current_dir, cxx>>

\* line 114
CmakeBuild ==
    /\ pc = "build"
    /\ calls' = Append(calls, "cmake.build")
    /\ pc' = "link"
    /\ UNCHANGED <<inputs, out, cmake, cuda, idx, current_dir, cxx>>

\* lines 115, 157: the call of link_libraries
LinkLibraries ==
    /\ pc = "link"
    /\ calls' = Append(calls, "link_libraries")
    /\ current_dir' = None
    /\ idx' = 0
    /\ pc' = "walk"
    /\ UNCHANGED <<inputs, out, cmake, cuda, cxx>>

\* link_entry never storing the directory it registered
link_entry_slot_never_set(os, entry, cur) ==
    IF /\ entry.kind = "file"
       /\ IsSome(entry.name)
       /\ is_library(os, Unwrap(entry.name))
    THEN LET register == Some(entry.parent) # cur
         IN  [ lines |-> (IF register
                          THEN <<Line(169, "cargo:rustc-link-search", entry.parent)>>
                          ELSE <<>>)
                         \o <<Line(172, "cargo:rustc-link-lib=static",
                                   library_name(os, Unwrap(entry.name)))>>,
               current_dir |-> cur ]
    ELSE [lines |-> <<>>, current_dir |-> cur]

\* link_entry registering only the first directory it meets
link_entry_first_only(os, entry, cur) ==
    IF /\ entry.kind = "file"
       /\ IsSome(entry.name)
       /\ is_library(os, Unwrap(entry.name))
    THEN LET register == ~IsSome(cur)
         IN  [ lines |-> (IF register
                          THEN <<Line(169, "cargo:rustc-link-search", entry.parent)>>
                          ELSE <<>>)
                         \o <<Line(172, "cargo:rustc-link-lib=static",
                                   library_name(os, Unwrap(entry.name)))>>,
               current_dir |-> IF register THEN Some(entry.parent) ELSE cur ]
    ELSE [lines |-> <<>>, current_dir |-> cur]

\* lines 158-175: one turn of the loop over the walk
link_entry(os, entry, cur) ==
    IF /\ entry.kind = "file"
       /\ IsSome(entry.name)
       /\ is_library(os, Unwrap(entry.name))
    THEN LET register == Some(entry.parent) # cur
         IN  [ lines |-> (IF register
                          THEN <<Line(169, "cargo:rustc-link-search", entry.parent)>>
                          ELSE <<>>)
                         \o <<Line(172, "cargo:rustc-link-lib=static",
                                   library_name(os, Unwrap(entry.name)))>>,
               current_dir |-> IF register THEN Some(entry.parent) ELSE cur ]
    ELSE [lines |-> <<>>, current_dir |-> cur]

WalkEntry ==
    /\ pc = "walk"
    /\ idx < Len(walk)
    /\ LET r == link_entry(platform.os, walk[idx + 1], current_dir)
       IN  /\ out' = out \o r.lines
           /\ current_dir' = r.current_dir
    /\ idx' = idx + 1
    /\ UNCHANGED <<inputs, pc, cmake, cuda, calls, cxx>>

\* lines 117-133, entered when the walk is exhausted
CompileBridge ==
    /\ pc = "walk"
    /\ idx = Len(walk)
    /\ cxx' = Some(BridgeBuild(platform.os))
    /\ calls' = Append(calls, "cxx_build.compile")
    /\ pc' = "done"
    /\ UNCHANGED <<inputs, out, cmake, cuda, idx, current_dir>>

Next ==
    \/ Start
    \/ SearchLibraryPath
    \/ SearchCmakeLibraryPath
    \/ Configure
    \/ ConfigureCuda
    \/ ConfigureFeatures
    \/ CmakeBuild
    \/ LinkLibraries
    \/ WalkEntry
    \/ CompileBridge

Spec == Init /\ [][Next]_vars

-----------------------------------------------------------------------------
(* Vocabulary of the properties *)

BeforeCuda == {"start", "search1", "search2", "config", "cuda"}

Arg(lines) == [i \in DOMAIN lines |-> lines[i].arg]

\* the lines printed from source lines lo..hi, in the order printed
LinesAt(lo, hi) == SelectSeq(out, LAMBDA l : l.at \in lo..hi)

Directive(lines, d) == SelectSeq(lines, LAMBDA l : l.directive = d)

\* the value cmake ends up with for a key: that of the key's last definition
Configured(key) ==
    LET at == {i \in DOMAIN cmake.defines : cmake.defines[i][1] = key}
    IN  IF at = {} THEN <<>>
        ELSE <<cmake.defines[CHOOSE i \in at : \A j \in at : j <= i][2]>>

\* the toolkit candidates as the specification lists them: the variables that are set, in
\* the order CUDA_PATH, CUDA_ROOT, CUDA_TOOLKIT_ROOT_DIR, CUDNN_LIB, then the fixed directories
ListedCandidates ==
    LET names == SelectSeq(<<"CUDA_PATH", "CUDA_ROOT", "CUDA_TOOLKIT_ROOT_DIR", "CUDNN_LIB">>,
                           LAMBDA k : env[k] # <<>>)
    IN  [i \in DOMAIN names |-> env[names[i]][1]]
        \o <<"/usr", "/usr/local/cuda", "/opt/cuda", "/usr/lib/cuda",
             "C:/Program Files/NVIDIA GPU Computing Toolkit", "C:/CUDA">>

\* positions in ListedCandidates under which include/cuda.h is a file
MarkedPositions ==
    {i \in DOMAIN ListedCandidates : <<ListedCandidates[i], "include", "cuda.h">> \in files}

BuildStarted ==
    \/ \E i \in DOMAIN calls : calls[i] \in {"cmake.build", "link_libraries", "cxx_build.compile"}
    \/ cxx # <<>>

(***************************************************************************)
(* C1: with the cuda feature enabled and the marker under no candidate,    *)
(* the run never gets past the toolkit lookup: cmake.build(),              *)
(* link_libraries() and the bridge compilation have not been executed in   *)
(* any state of such a run, and once the lookup has been made the run has  *)
(* failed.                                                                 *)
(***************************************************************************)
C1_FailsBeforeBuild ==
    ("cuda" \in features /\ MarkedPositions = {}) =>
        /\ ~BuildStarted
        /\ pc \in BeforeCuda \cup {"panicked"}
        /\ (pc = "panicked" => calls = <<"cuda_root">>)

C1_Witness ==
    /\ pc = "panicked"
    /\ "cuda" \in features
    /\ MarkedPositions = {}
    /\ \E k \in DOMAIN env : k \in {"CUDA_PATH", "CUDA_ROOT"} /\ env[k] # <<>>

(***************************************************************************)
(* C2: cuda_root() returns the first listed candidate that has the marker, *)
(* never a later one, and returns nothing exactly when no candidate has    *)
(* the marker.                                                             *)
(***************************************************************************)
C2_FirstCandidateWins ==
    ("cuda" \in features /\ pc \notin BeforeCuda) =>
        IF MarkedPositions = {}
        THEN cuda = <<>> /\ pc = "panicked"
        ELSE LET first == CHOOSE i \in MarkedPositions : \A j \in MarkedPositions : i <= j
             IN  cuda = << <<ListedCandidates[first]>> >> /\ pc # "panicked"

C2_Witness ==
    /\ pc = "done"
    /\ env["CUDA_PATH"] = <<>>
    /\ env["CUDA_ROOT"] = <<"/opt/cuda-12">>
    /\ files = {<<"/opt/cuda-12", "include", "cuda.h">>, <<"/usr", "include", "cuda.h">>}
    /\ cuda = << <<"/opt/cuda-12">> >>

(***************************************************************************)
(* C9: with cuda enabled and a toolkit found, the three toolkit library    *)
(* directories (lib, lib64, lib/x64) and cudart_static are always emitted; *)
(* with cuda-dynamic-loading CUDA_DYNAMIC_LOADING=ON is defined and no     *)
(* cuBLAS library is linked; without it cublas and cublasLt (Windows) or   *)
(* cublas_static, cublasLt_static and culibos (elsewhere) are linked.      *)
(***************************************************************************)
C9_CudaLinking ==
    ("cuda" \in features /\ pc \notin BeforeCuda /\ pc # "panicked") =>
        LET block   == LinesAt(58, 82)
            dynamic == "cuda-dynamic-loading" \in features
        IN  /\ cuda # <<>>
            /\ Arg(Directive(block, "cargo:rustc-link-search"))
                 = << cuda[1] \o <<"lib">>, cuda[1] \o <<"lib64">>, cuda[1] \o <<"lib/x64">> >>
            /\ Arg(Directive(block, "cargo:rustc-link-lib=static"))
                 = << <<"cudart_static">> >> \o
                   (IF dynamic THEN <<>>
                    ELSE IF platform.os = "windows"
                    THEN << <<"cublas">>, <<"cublasLt">> >>
                    ELSE << <<"cublas_static">>, <<"cublasLt_static">>, <<"culibos">> >>)
            /\ Configured("CUDA_DYNAMIC_LOADING") = (IF dynamic THEN << <<"ON">> >> ELSE <<>>)

C9_Witness ==
    /\ pc = "done"
    /\ {"cuda", "cuda-dynamic-loading"} \subseteq features
    /\ platform.os = "windows"
    /\ Len(LinesAt(58, 82)) >= 4

(***************************************************************************)
(* C10: without the cuda feature cuda_root() is never called and the run   *)
(* never fails for want of a toolkit, whatever cudnn and                   *)
(* cuda-dynamic-loading are; the run fails exactly when cuda is enabled    *)
(* and no candidate has the marker.                                        *)
(***************************************************************************)
C10_LookupOnlyForCuda ==
    /\ "cuda" \notin features =>
          /\ \A i \in DOMAIN calls : calls[i] # "cuda_root"
          /\ pc # "panicked"
          /\ cuda = <<>>
    /\ pc \notin BeforeCuda =>
          (pc = "panicked" <=> ("cuda" \in features /\ MarkedPositions = {}))

C10_Witness ==
    /\ pc = "done"
    /\ features = {"cudnn", "cuda-dynamic-loading"}
    /\ MarkedPositions = {}
    /\ calls = <<"cmake.build", "link_libraries", "cxx_build.compile">>

\* the entries consumed so far that link_libraries treats as static libraries
IsLibraryEntry(e) ==
    e.kind = "file" /\ e.name # <<>> /\ is_library(platform.os, e.name[1])

SeenLibraries == SelectSeq(SubSeq(walk, 1, idx), IsLibraryEntry)

(***************************************************************************)
(* C3: link_libraries registers a library's directory exactly when it      *)
(* differs from the directory registered last (one slot, empty at first):  *)
(* the registrations are the libraries' directories with each run of       *)
(* equal neighbours collapsed to one, so that a directory met again after  *)
(* another one is registered again.                                        *)
(***************************************************************************)
C3_AdjacentDedup ==
    pc \in {"walk", "done"} =>
        LET libs  == SeenLibraries
            heads == {i \in DOMAIN libs : i = 1 \/ libs[i].parent # libs[i - 1].parent}
            regs  == Arg(LinesAt(169, 169))
        IN  /\ Len(regs) = Cardinality(heads)
            /\ \A i \in heads :
                  regs[Cardinality({j \in heads : j <= i})] = libs[i].parent
            /\ current_dir = (IF libs = <<>> THEN <<>> ELSE <<libs[Len(libs)].parent>>)

C3_Witness ==
    /\ pc = "walk"
    /\ idx = 3
    /\ Len(SeenLibraries) = 3
    /\ Arg(LinesAt(169, 169)) = <<SubDir, BuildDir, SubDir>>

(***************************************************************************)
(* C4 as stated: a tree with libfoo.a and libbar.a in one directory and    *)
(* libbaz.a in another gives three link directives and three search-path   *)
(* registrations.                                                          *)
(***************************************************************************)
FooBarBazTree ==
    /\ platform.os # "windows"
    /\ \E d1, d2 \in {BuildDir, SubDir} :
          /\ d1 # d2
          /\ Len(SelectSeq(walk, IsLibraryEntry)) = 3
          /\ {walk[i] : i \in {j \in DOMAIN walk : IsLibraryEntry(walk[j])}}
               = {LibFile("linux", d1, Foo), LibFile("linux", d1, Bar), LibFile("linux", d2, Baz)}

ConventionNames(os, n) ==
    { stem \in {SubSeq(n, i, j) : i \in 1..(Len(n) + 1), j \in 0..Len(n)} :
        n = (IF os = "windows" THEN stem \o <<".", "l", "i", "b">>
             ELSE <<"l", "i", "b">> \o stem \o <<".", "a">>) }

RECURSIVE ConventionLinks(_, _)
ConventionLinks(os, entries) ==
    IF entries = <<>> THEN <<>>
    ELSE LET e     == Head(entries)
             names == IF e.kind = "file" /\ e.name # <<>>
                      THEN ConventionNames(os, e.name[1]) ELSE {}
         IN  (IF names = {} THEN <<>> ELSE <<CHOOSE n \in names : TRUE>>)
             \o ConventionLinks(os, Tail(entries))

(***************************************************************************)
(* C6: the link directives of link_libraries are, in walk order, one per   *)
(* regular file named lib<name>.a (<name>.lib on Windows), each carrying   *)
(* <name>; other files, directories and unreadable entries give none.      *)
(***************************************************************************)
C6_LinksInWalkOrder ==
    pc \in {"walk", "done"} =>
        /\ Arg(LinesAt(172, 172)) = ConventionLinks(platform.os, SubSeq(walk, 1, idx))
        /\ \A i \in DOMAIN out :
              out[i].at = 172 => out[i].directive = "cargo:rustc-link-lib=static"

C6_Witness ==
    /\ pc = "done"
    /\ platform.os = "windows"
    /\ walk = <<File(BuildDir, <<"m", "y", "l", "i", "b", ".", "l", "i", "b">>)>>
    /\ Arg(LinesAt(172, 172)) = << <<"m", "y", "l", "i", "b">> >>

\* the non-empty stretches of a path list between separators, first to last
Segments(value, sep) ==
    LET v    == value[1]
        runs == { r \in (1..Len(v)) \X (1..Len(v)) :
                    /\ r[1] <= r[2]
                    /\ \A k \in r[1]..r[2] : v[k] # sep
                    /\ r[1] = 1 \/ v[r[1] - 1] = sep
                    /\ r[2] = Len(v) \/ v[r[2] + 1] = sep }
    IN  IF value = <<>> THEN <<>>
        ELSE [n \in 1..Cardinality(runs) |->
                LET r == CHOOSE r \in runs : Cardinality({q \in runs : q[1] < r[1]}) = n - 1
                IN  SubSeq(v, r[1], r[2])]

Separator == IF platform.os = "windows" THEN ";" ELSE ":"

(***************************************************************************)
(* C7: add_search_paths registers the non-empty segments of the            *)
(* variable's value, all of them, in their order, duplicates included,     *)
(* first those of LIBRARY_PATH and then those of CMAKE_LIBRARY_PATH; an    *)
(* unset variable registers nothing.                                       *)
(***************************************************************************)
C7_SegmentsInOrder ==
    LET regs   == Arg(LinesAt(28, 28))
        first  == Segments(env["LIBRARY_PATH"], Separator)
        second == Segments(env["CMAKE_LIBRARY_PATH"], Separator)
    IN  /\ pc \in {"start", "search1"} => regs = <<>>
        /\ pc = "search2" => regs = first
        /\ pc \notin {"start", "search1", "search2"} => regs = first \o second
        /\ \A i \in DOMAIN regs : regs[i] # <<>>

C7_Witness ==
    /\ pc = "config"
    /\ platform.os = "linux"
    /\ env["LIBRARY_PATH"] = << <<"a", ":", "a">> >>
    /\ env["CMAKE_LIBRARY_PATH"] = << <<"a">> >>
    /\ Arg(LinesAt(28, 28)) = << <<"a">>, <<"a">>, <<"a">> >>

ConfigKeys ==
    {"BUILD_CLI", "BUILD_SHARED_LIBS", "WITH_MKL", "OPENMP_RUNTIME",
     "CMAKE_POLICY_VERSION_MINIMUM", "WITH_CUDA", "CUDA_TOOLKIT_ROOT_DIR", "WITH_CUDNN",
     "CUDA_DYNAMIC_LOADING", "CMAKE_OSX_ARCHITECTURES", "WITH_OPENBLAS", "WITH_RUY",
     "WITH_ACCELERATE", "WITH_TENSOR_PARALLEL", "WITH_DNNL", "WITH_FLASH_ATTN"}

AfterConfiguration == {"build", "link", "walk", "done"}

\* the definitions a run in environment i hands to cmake, and the value a key ends up with
DefinesOf(i) ==
    BaselineDefines
    \o (IF "cuda" \in i.features
        THEN CudaDefines(i.features, cuda_root(i.env, i.files)[1]) ELSE <<>>)
    \o MacDefines(i.platform) \o FeatureDefines(i.features)

LastValue(defines, key) ==
    LET at == {n \in DOMAIN defines : defines[n][1] = key}
    IN  IF at = {} THEN <<>> ELSE <<defines[CHOOSE n \in at : \A m \in at : m <= n][2]>>

(***************************************************************************)
(* C8 as stated: the configuration is a function of the feature set alone: *)
(* a run on the same platform with the same features configures every key  *)
(* alike whichever of the conventional directories holds the toolkit.      *)
(***************************************************************************)
C8_FunctionOfFlagsAlone ==
    pc = "done" =>
        \A r \in {"/usr", "/usr/local/cuda", "/opt/cuda", "/usr/lib/cuda"} :
            LET other == [platform |-> platform, features |-> features, env |-> env,
                          files |-> {<<r, "include", "cuda.h">>}, walk |-> walk]
            IN  \A k \in ConfigKeys : LastValue(DefinesOf(other), k) = Configured(k)

On(flag) == IF flag THEN << <<"ON">> >> ELSE <<>>

(***************************************************************************)
(* C8 amended: the configuration is a function of the feature set, the     *)
(* platform and the toolkit root found.  Each key ends up with the value   *)
(* of its last definition, the baseline being defined first: WITH_MKL is   *)
(* ON with mkl and OFF without, OPENMP_RUNTIME is COMP with openmp-runtime *)
(* and NONE without, every other feature key is ON exactly when its        *)
(* feature is enabled; only CUDA_TOOLKIT_ROOT_DIR (the root found) and     *)
(* CMAKE_OSX_ARCHITECTURES (arm64 on macOS/aarch64) depend on more than    *)
(* the features.                                                           *)
(***************************************************************************)
C8_LastWriterWins ==
    pc \in AfterConfiguration =>
        LET has(f) == f \in features
            gpu    == has("cuda")
        IN  /\ \A n \in DOMAIN cmake.defines : cmake.defines[n][1] \in ConfigKeys
            /\ [n \in 1..5 |-> cmake.defines[n][1]]
                 = <<"BUILD_CLI", "BUILD_SHARED_LIBS", "WITH_MKL", "OPENMP_RUNTIME",
                     "CMAKE_POLICY_VERSION_MINIMUM">>
            /\ Configured("BUILD_CLI") = << <<"OFF">> >>
            /\ Configured("BUILD_SHARED_LIBS") = << <<"OFF">> >>
            /\ Configured("CMAKE_POLICY_VERSION_MINIMUM") = << <<"3.5">> >>
            /\ Configured("WITH_MKL") = << <<IF has("mkl") THEN "ON" ELSE "OFF">> >>
            /\ Configured("OPENMP_RUNTIME")
                 = << <<IF has("openmp-runtime") THEN "COMP" ELSE "NONE">> >>
            /\ Configured("WITH_CUDA") = On(gpu)
            /\ Configured("WITH_CUDNN") = On(gpu /\ has("cudnn"))
            /\ Configured("CUDA_DYNAMIC_LOADING") = On(gpu /\ has("cuda-dynamic-loading"))
            /\ Configured("WITH_OPENBLAS") = On(has("openblas"))
            /\ Configured("WITH_RUY") = On(has("ruy"))
            /\ Configured("WITH_ACCELERATE") = On(has("accelerate"))
            /\ Configured("WITH_TENSOR_PARALLEL") = On(has("tensor-parallel"))
            /\ Configured("WITH_DNNL") = On(has("dnnl"))
            /\ Configured("WITH_FLASH_ATTN") = On(has("flash-attention"))
            /\ Configured("CUDA_TOOLKIT_ROOT_DIR") = (IF gpu THEN cuda ELSE <<>>)
            /\ Configured("CMAKE_OSX_ARCHITECTURES")
                 = (IF platform.os = "macos" /\ platform.arch = "aarch64"
                    THEN << <<"arm64">> >> ELSE <<>>)

C8_Witness ==
    /\ pc = "done"
    /\ {"mkl", "openblas", "openmp-runtime"} \subseteq features
    /\ Cardinality({n \in DOMAIN cmake.defines : cmake.defines[n][1] = "WITH_MKL"}) = 2
    /\ Configured("WITH_MKL") = << <<"ON">> >>
    /\ Configured("WITH_OPENBLAS") = << <<"ON">> >>

====
